---- MODULE Spec2Model ----
(***************************************************************************)
(* A model of the Gensyn node monitor (src/gensyn_data_collector.py,       *)
(* src/data_manager.py, src/telegram_notifier.py, src/main.py).            *)
(*                                                                         *)
(* Spec         the GensynDataCollector object: collect_node_data with the *)
(*              calls it makes (get_eoa_addresses_batch, get_peer_info,    *)
(*              get_last_internal_tx_time), and get_last_internal_tx_time  *)
(*              called on its own.                                         *)
(* SpecChanges  DataManager.calculate_changes applied to pairs of          *)
(*              RecordSets.                                                *)
(* SpecHistory  DataManager.save_to_history called repeatedly on the       *)
(*              history file.                                              *)
(* SpecProbe    get_last_internal_tx_time alone, with the responses of the *)
(*              endpoints it queried kept beside the call.                 *)
(* SpecReports  the console, Excel and Telegram reports built from a       *)
(*              RecordSet.                                                 *)
(* SpecCycle    one GensynMonitor.run_monitoring_cycle: roster, previous   *)
(*              snapshot, collection, changes, reports, notifications and  *)
(*              the two saves.                                             *)
(* SpecCycleFair  SpecCycle with every step that can be taken taken.       *)
(* SpecCycles   cycle after cycle on the same two files, with              *)
(*              collect_node_data as one step.                             *)
(*                                                                         *)
(* Python's None is "None" where the other values are strings, and the     *)
(* empty sequence where they are integers (NoneInt, Some(n)).              *)
(* A record's 'timestamp' field (the wall clock as text) is left out: no   *)
(* operation of the program reads it.                                      *)
(***************************************************************************)
EXTENDS Integers, Sequences, FiniteSets, TLC

\* ------------------------------------------------------------- bounds

\* Longest roster handed to collect_node_data.
MaxNodes == 2

\* Calls of save_to_history in one behaviour, and how many of them may fail.
MaxSaves == 103

MaxFailures == 1

\* Longest roster file read by a monitoring cycle.
MaxCycleNodes == 1

\* The scheduler starts no further cycle from this time on.
MaxTime == 2

\* ------------------------------------------------------------- values

None == "None"

\* An optional integer or list: absent, or the value wrapped.
NoneInt == <<>>

Some(n) == <<n>>

ZERO_ADDRESS == "0x0000000000000000000000000000000000000000"

\* The addresses the contract can return besides the all-zero one.
Addresses == {"0xA1", "0xB2"}

\* The rows read_nodes_data can produce: row 3 repeats the identifier of
\* row 1 under another name and hardware type.
Descriptors ==
    { [node_id |-> "n1", custom_name |-> "akk 1", hardware_type |-> "CPU"],
      [node_id |-> "n2", custom_name |-> "akk 2", hardware_type |-> "GPU"],
      [node_id |-> "n1", custom_name |-> "akk 3", hardware_type |-> "GPU"] }

SeqsUpTo(S, n) == UNION { [1..k -> S] : k \in 0..n }

Rosters == SeqsUpTo(Descriptors, MaxNodes)

\* dict.get(key) of a mapping held as a function: None for a missing key.
DictGet(d, k) == IF k \in DOMAIN d THEN d[k] ELSE None

\* dict.get(key, default)
DictGetDefault(d, k, default) == IF k \in DOMAIN d THEN d[k] ELSE default

\* Python truthiness of an optional address string.
Truthy(s) == s # None /\ s # ""

\* ------------------------------------------------------------- state

VARIABLES
    pc,             \* where the running call stands; "idle" before any call
    op,             \* the operation called from outside: "collect" or "tx"
    w3,             \* self.w3: "None", or its is_connected() answer
    contract,       \* self.contract: "None" or "set"
    nodes_data,     \* collect_node_data's argument
    eoa_addresses,  \* the mapping get_eoa_addresses_batch returned
    eoa_status,     \* how get_eoa_addresses_batch ended
    eoa_list,       \* the list the contract call returned
    attempt,        \* the retry loop's attempt (0-based)
    rlog,           \* what one get_eoa_addresses_batch invocation did, in order
    i,              \* collect_node_data's loop position (1-based)
    results,        \* collect_node_data's results list
    peer_info,      \* the current node's peer info
    eoa_address,    \* the address get_last_internal_tx_time was called with
    endpoint,       \* the prober's position in api_endpoints (1-based)
    tx_requests,    \* the endpoints the running prober call has requested
    tx_responses,   \* what they answered (recorded under SpecProbe only)
    last_tx_minutes,\* the prober's return value
    log,            \* the requests and delays of the running collect call
    current_data,   \* calculate_changes' first argument
    previous_data,  \* calculate_changes' second argument
    changes,        \* calculate_changes' return value
    history,        \* the content of history.json
    appended,       \* every entry a save_to_history call wrote, in order
    clock,          \* the wall clock: it advances with every
                    \* save_to_history call and between two cycles
    failures,       \* the number of them that failed
    phase,          \* where run_monitoring_cycle stands; "none" outside it
    sent,           \* the messages the running cycle handed to Telegram
    excel_path,     \* save_excel_report's return value: "None" or "path"
    report,         \* what the report builders made of the RecordSet
    current_file,   \* current_data.json: what the last write that came to
                    \* its end put there
    torn,           \* the files a later write, failing, left unparseable
    files0,         \* the files as the running cycle found them
    saved,          \* how the running cycle's persistence calls ended
    persisted       \* how they ended in the last cycle that made them

collectorVars == <<pc, op, w3, contract, nodes_data, eoa_addresses, eoa_status,
                   eoa_list, attempt, rlog, i, results, peer_info, eoa_address,
                   endpoint, tx_requests, tx_responses, last_tx_minutes, log>>

managerVars == <<current_data, previous_data, changes, history, appended,
                 clock, failures>>

cycleVars == <<phase, sent, excel_path, report, current_file, torn, files0,
               saved, persisted>>

vars == <<collectorVars, managerVars, cycleVars>>

\* ------------------------------------------- GensynDataCollector.__init__

\* After construction self.w3 is a Web3 object or None (setup_web3_connection's
\* fallback failed), and self.contract is None exactly when w3.eth.contract
\* raised, which it does on a None w3.
InitCollector ==
    /\ \E c \in {"set", "None"} : w3 = c /\ contract = c
    /\ nodes_data = <<>>
    /\ eoa_addresses = <<>>
    /\ eoa_status = "none"
    /\ eoa_list = <<>>
    /\ attempt = 0
    /\ rlog = <<>>
    /\ i = 0
    /\ results = <<>>
    /\ peer_info = <<>>
    /\ eoa_address = None
    /\ endpoint = 0
    /\ tx_requests = <<>>
    /\ tx_responses = <<>>
    /\ last_tx_minutes = NoneInt
    /\ log = <<>>

\* DataManager before any of its operations is called: no history file.
InitManager ==
    /\ current_data = <<>>
    /\ previous_data = <<>>
    /\ changes = <<>>
    /\ history = <<>>
    /\ appended = <<>>
    /\ clock = 0
    /\ failures = 0

\* GensynMonitor before any cycle: nothing sent, neither file written yet.
InitMonitor ==
    /\ phase = "none"
    /\ sent = <<>>
    /\ excel_path = None
    /\ report = [k \in {} |-> None]
    /\ current_file = NoneInt
    /\ torn = {}
    /\ files0 = [k \in {} |-> None]
    /\ saved = [k \in {} |-> None]
    /\ persisted = [current |-> "none", history |-> "none"]

Init ==
    pc = "idle" /\ op = "none" /\ InitCollector /\ InitManager /\ InitMonitor

\* ------------------------------------------- get_eoa_addresses_batch

\* A slip: one attempt more.
max_retries_more == 3 + 1

max_retries == 3

RetryDelay == 10

EmptyDict == [k \in {} |-> None]

DictSet(d, k, v) == [x \in DOMAIN d \cup {k} |-> IF x = k THEN v ELSE d[x]]

NodeIds(nodes) == [k \in 1..Len(nodes) |-> nodes[k].node_id]

\* A slip: the all-zero address is kept as it came.
NormalizedKeepsZero(addr) == addr

\* Lines 256-259: the all-zero address becomes None.
Normalized(addr) == IF addr # ZERO_ADDRESS THEN addr ELSE None

\* The result loop of get_eoa_addresses_batch (lines 250-261), run over
\* positions 1..k: a later position of an identifier overwrites an earlier one.
RECURSIVE ResolveUpTo(_, _, _)
ResolveUpTo(node_ids, addrs, k) ==
    IF k = 0
    THEN EmptyDict
    ELSE LET result == ResolveUpTo(node_ids, addrs, k - 1)
             node_id == node_ids[k]
         IN  IF k <= Len(addrs)
             THEN DictSet(result, node_id, Normalized(addrs[k]))
             ELSE DictSet(result, node_id, None)

ResolveMap(node_ids, addrs) == ResolveUpTo(node_ids, addrs, Len(node_ids))

\* A slip: the outer handler answers with the all-zero address.
AllZero(node_ids) ==
    [k \in { node_ids[n] : n \in 1..Len(node_ids) } |-> ZERO_ADDRESS]

\* The outer handler's value (line 269): every identifier unresolved.
AllNone(node_ids) ==
    [k \in { node_ids[n] : n \in 1..Len(node_ids) } |-> None]

\* What the contract call can return: a list of addresses, of any length.
EoaLists == SeqsUpTo(Addresses \cup {ZERO_ADDRESS}, MaxNodes)

SleepEvent(secs) == [ev |-> "sleep", secs |-> secs]

CallEvent(ok) == [ev |-> "call", ok |-> ok]

ReconnectEvent == [ev |-> "reconnect"]

\* collect_node_data's loop at position n: the next node, or the return.
LoopAt(n) == IF n <= Len(nodes_data) THEN "peer" ELSE "returned"

\* Lines 210-212: contract or w3 missing, return {}.
EoaUnavailable ==
    /\ pc = "eoa"
    /\ contract = "None" \/ w3 = "None"
    /\ eoa_addresses' = EmptyDict
    /\ eoa_status' = "unavailable"
    /\ pc' = "eoa_ret"
    /\ UNCHANGED <<op, w3, contract, nodes_data, eoa_list, attempt, rlog, i,
                   results, peer_info, eoa_address, endpoint, tx_requests,
                   last_tx_minutes, log>>
    /\ UNCHANGED managerVars
    /\ UNCHANGED <<tx_responses, cycleVars>>

\* Lines 214-221: is_connected() answers `connected`; when it does not,
\* setup_web3_connection leaves `new_w3`, and is_connected() then answers
\* `reconnected`.
EoaEnter ==
    /\ pc = "eoa"
    /\ contract # "None" /\ w3 # "None"
    /\ \E connected \in BOOLEAN, new_w3 \in {"set", "None"}, reconnected \in BOOLEAN :
          IF connected
          THEN /\ pc' = "eoa_call"
               /\ UNCHANGED <<w3, rlog, eoa_addresses, eoa_status>>
          ELSE /\ w3' = new_w3
               /\ rlog' = Append(rlog, ReconnectEvent)
               /\ IF new_w3 = "None" \/ ~reconnected
                  THEN /\ eoa_addresses' = EmptyDict
                       /\ eoa_status' = "unavailable"
                       /\ pc' = "eoa_ret"
                  ELSE /\ pc' = "eoa_call"
                       /\ UNCHANGED <<eoa_addresses, eoa_status>>
    /\ UNCHANGED <<op, contract, nodes_data, eoa_list, attempt, i, results,
                   peer_info, eoa_address, endpoint, tx_requests,
                   last_tx_minutes, log>>
    /\ UNCHANGED managerVars
    /\ UNCHANGED <<tx_responses, cycleVars>>

\* Lines 226-232 and 250-265: the call answers with a list; the loop breaks
\* and the result mapping is built and returned.
EoaAttemptOk ==
    /\ pc = "eoa_call"
    /\ \E addrs \in EoaLists :
          /\ eoa_list' = addrs
          /\ eoa_addresses' = ResolveMap(NodeIds(nodes_data), addrs)
    /\ rlog' = Append(rlog, CallEvent(TRUE))
    /\ eoa_status' = "ok"
    /\ pc' = "eoa_ret"
    /\ UNCHANGED <<op, w3, contract, nodes_data, attempt, i, results, peer_info,
                   eoa_address, endpoint, tx_requests, last_tx_minutes, log>>
    /\ UNCHANGED managerVars
    /\ UNCHANGED <<tx_responses, cycleVars>>

\* Lines 233-248 and 267-269: the call raises. Before the last attempt the
\* handler sleeps, reconnects and, when connected, rebuilds the contract;
\* on the last attempt it re-raises and the outer handler returns the
\* all-None mapping.
EoaAttemptFail ==
    /\ pc = "eoa_call"
    /\ IF attempt < max_retries - 1
       THEN \E new_w3 \in {"set", "None"}, connected \in BOOLEAN :
               /\ rlog' = rlog \o <<CallEvent(FALSE), SleepEvent(RetryDelay),
                                    ReconnectEvent>>
               /\ w3' = new_w3
               /\ contract' = IF new_w3 # "None" /\ connected
                              THEN "set" ELSE contract
               /\ attempt' = attempt + 1
               /\ UNCHANGED <<pc, eoa_addresses, eoa_status>>
       ELSE /\ rlog' = Append(rlog, CallEvent(FALSE))
            /\ eoa_addresses' = AllNone(NodeIds(nodes_data))
            /\ eoa_status' = "exhausted"
            /\ pc' = "eoa_ret"
            /\ UNCHANGED <<w3, contract, attempt>>
    /\ UNCHANGED <<op, nodes_data, eoa_list, i, results, peer_info,
                   eoa_address, endpoint, tx_requests, last_tx_minutes, log>>
    /\ UNCHANGED managerVars
    /\ UNCHANGED <<tx_responses, cycleVars>>

\* Line 358: get_eoa_addresses_batch returns into collect_node_data, and its
\* frame (the attempt counter, the list the contract returned) is gone.
EoaReturn ==
    /\ pc = "eoa_ret"
    /\ pc' = LoopAt(1)
    /\ eoa_list' = <<>>
    /\ attempt' = 0
    /\ rlog' = <<>>
    /\ UNCHANGED <<op, w3, contract, nodes_data, eoa_addresses, eoa_status, i,
                   results, peer_info, eoa_address, endpoint, tx_requests,
                   last_tx_minutes, log>>
    /\ UNCHANGED managerVars
    /\ UNCHANGED <<tx_responses, cycleVars>>

\* ------------------------------------------- get_peer_info

\* The JSON objects the peer service answers with in this model: the empty
\* object, one with all four fields, one with the score alone.
PeerDicts ==
    { EmptyDict,
      [peerName |-> "peer-x", online |-> TRUE, score |-> 2, reward |-> 1],
      [score |-> 1] }

\* What a peer-status request can come to: a request or parse error (caught,
\* None returned), a JSON body that is no object (data.get raises
\* AttributeError, which nothing in get_peer_info catches), a JSON object.
PeerResponses ==
    { [kind |-> "error"], [kind |-> "nondict"] }
        \cup { [kind |-> "dict", data |-> d] : d \in PeerDicts }

\* `not peer_info`: None, or a dict with no key.
PeerAbsent(resp) ==
    resp.kind = "error" \/ (resp.kind = "dict" /\ resp.data = EmptyDict)

PeerEvent(n, resp) == [ev |-> "peer", node |-> n, resp |-> resp]

\* ------------------------------------------- collect_node_data

NodeDelay == 1

\* A slip: the default record forgets the resolved address.
AbsentRecordNoAddress(node, addrs) ==
    [ id |-> node.node_id,
      custom_name |-> node.custom_name,
      api_name |-> "UNKNOWN",
      hardware_type |-> node.hardware_type,
      address |-> None,
      reward |-> 0,
      score |-> 0,
      online |-> FALSE,
      last_tx_minutes_ago |-> NoneInt ]

\* Lines 370-381.
AbsentRecord(node, addrs) ==
    [ id |-> node.node_id,
      custom_name |-> node.custom_name,
      api_name |-> "UNKNOWN",
      hardware_type |-> node.hardware_type,
      address |-> DictGet(addrs, node.node_id),
      reward |-> 0,
      score |-> 0,
      online |-> FALSE,
      last_tx_minutes_ago |-> NoneInt ]

\* A slip: the two counters are taken from the fields of their own names.
PresentRecordUncrossed(node, info, addr, minutes) ==
    [ id |-> node.node_id,
      custom_name |-> node.custom_name,
      api_name |-> DictGetDefault(info, "peerName", "Unknown"),
      hardware_type |-> node.hardware_type,
      address |-> addr,
      reward |-> DictGetDefault(info, "reward", 0),
      score |-> DictGetDefault(info, "score", 0),
      online |-> DictGetDefault(info, "online", FALSE),
      last_tx_minutes_ago |-> minutes ]

\* Lines 392-403.
PresentRecord(node, info, addr, minutes) ==
    [ id |-> node.node_id,
      custom_name |-> node.custom_name,
      api_name |-> DictGetDefault(info, "peerName", "Unknown"),
      hardware_type |-> node.hardware_type,
      address |-> addr,
      reward |-> DictGetDefault(info, "score", 0),
      score |-> DictGetDefault(info, "reward", 0),
      online |-> DictGetDefault(info, "online", FALSE),
      last_tx_minutes_ago |-> minutes ]

\* A slip: the absent branch continues without appending its record.
AbsentBranchDropsRecord(res, node, addrs) == res

\* Lines 368-383: the default record is appended before `continue`.
AbsentBranch(res, node, addrs) == Append(res, AbsentRecord(node, addrs))

\* collect_node_data(nodes): lines 354-358 up to the resolver call.
CallCollect ==
    /\ pc \in {"idle", "returned", "raised"}
    /\ \E nodes \in Rosters : nodes_data' = nodes
    /\ op' = "collect"
    /\ pc' = "eoa"
    /\ eoa_addresses' = EmptyDict
    /\ eoa_status' = "none"
    /\ eoa_list' = <<>>
    /\ attempt' = 0
    /\ rlog' = <<>>
    /\ i' = 1
    /\ results' = <<>>
    /\ peer_info' = EmptyDict
    /\ eoa_address' = None
    /\ endpoint' = 0
    /\ tx_requests' = <<>>
    /\ last_tx_minutes' = NoneInt
    /\ log' = <<>>
    /\ UNCHANGED <<w3, contract>>
    /\ UNCHANGED managerVars
    /\ UNCHANGED <<tx_responses, cycleVars>>

\* Lines 360-389 for node i: the peer-info request and what follows it up to
\* the prober call: the default record and `continue` when peer info is
\* absent, otherwise the address lookup and the `if eoa_address` test.
PeerInfo ==
    /\ pc = "peer"
    /\ \E resp \in PeerResponses :
          /\ log' = Append(log, PeerEvent(i, resp))
          /\ IF resp.kind = "nondict"
             THEN /\ pc' = "raised"
                  /\ UNCHANGED <<i, results, peer_info, eoa_address,
                                 last_tx_minutes>>
             ELSE IF PeerAbsent(resp)
             THEN /\ results' = AbsentBranch(results, nodes_data[i],
                                             eoa_addresses)
                  /\ i' = i + 1
                  /\ pc' = LoopAt(i + 1)
                  /\ UNCHANGED <<peer_info, eoa_address, last_tx_minutes>>
             ELSE /\ peer_info' = resp.data
                  /\ eoa_address' = DictGet(eoa_addresses, nodes_data[i].node_id)
                  /\ last_tx_minutes' = NoneInt
                  /\ pc' = IF Truthy(eoa_address') THEN "tx" ELSE "emit"
                  /\ UNCHANGED <<i, results>>
    /\ tx_requests' = <<>>
    /\ endpoint' = 0
    /\ UNCHANGED <<op, w3, contract, nodes_data, eoa_addresses, eoa_status,
                   eoa_list, attempt, rlog>>
    /\ UNCHANGED managerVars
    /\ UNCHANGED <<tx_responses, cycleVars>>

\* Lines 392-417 for node i: the record, the append, the delay.
EmitRecord ==
    /\ pc = "emit"
    /\ results' = Append(results, PresentRecord(nodes_data[i], peer_info,
                                                eoa_address, last_tx_minutes))
    /\ log' = Append(log, SleepEvent(NodeDelay))
    /\ i' = i + 1
    /\ pc' = LoopAt(i + 1)
    /\ UNCHANGED <<op, w3, contract, nodes_data, eoa_addresses, eoa_status,
                   eoa_list, attempt, rlog, peer_info, eoa_address, endpoint,
                   tx_requests, last_tx_minutes>>
    /\ UNCHANGED managerVars
    /\ UNCHANGED <<tx_responses, cycleVars>>

\* ------------------------------------------- get_last_internal_tx_time

\* len(api_endpoints)
NumEndpoints == 6

\* time.time() at line 336, in seconds.
Now == 4000

\* The timestamps (seconds) the records of an endpoint carry in this model:
\* the epoch itself, two more than an hour old, one later than the local
\* clock.
Epoch == 0

Older == 300

Old == 340

Future == 4130

\* Python's int() of a quotient: truncation towards zero.
TruncDiv(a, b) == IF a >= 0 THEN a \div b ELSE -((-a) \div b)

\* Lines 336-337.
MinutesAgo(latest_timestamp) == TruncDiv(Now - latest_timestamp, 60)

\* Line 314.
timestamp_fields ==
    <<"timestamp", "block_timestamp", "created_at", "time", "block_time">>

\* Line 305.
possible_keys ==
    <<"items", "transactions", "data", "result", "internal_transactions">>

\* The JSON values a record holds under a timestamp field: a string of
\* decimal digits, a non-negative integer, an ISO-8601 string (n is then the
\* instant it names), a string that is neither, null.
DigitString(n) == [t |-> "digits", n |-> n]

JsonInt(n) == [t |-> "int", n |-> n]

IsoString(n) == [t |-> "iso", n |-> n]

OtherString == [t |-> "text", n |-> 0]

JsonNull == [t |-> "null", n |-> 0]

\* Line 317, `tx[field]` as a condition: null and the integer 0 are false,
\* every non-empty string is true, the string "0" too.
FieldTruthy(v) ==
    CASE v.t = "null" -> FALSE
      [] v.t = "int"  -> v.n # 0
      [] OTHER        -> TRUE

\* Lines 318-326: str(tx[field]) read as a number of seconds when it is all
\* digits, and as an ISO-8601 date otherwise; NoneInt stands for the
\* ValueError fromisoformat raises on any other string. (The values of this
\* model stay below the millisecond threshold of line 322.)
ParseTimestamp(v) ==
    CASE v.t \in {"digits", "int"} /\ v.n >= 0 -> Some(v.n)
      [] v.t = "iso"                           -> Some(v.n)
      [] OTHER                                 -> NoneInt

\* Lines 316-333 for one record, from field k on: the first field that is
\* present, true and parseable gives the record's timestamp (`break`); a
\* field that does not parse is passed over (`continue`).
RECURSIVE ScanFields(_, _)
ScanFields(tx, k) ==
    IF k > Len(timestamp_fields)
    THEN NoneInt
    ELSE LET field == timestamp_fields[k]
         IN  IF /\ field \in DOMAIN tx
                /\ FieldTruthy(tx[field])
                /\ ParseTimestamp(tx[field]) # NoneInt
             THEN ParseTimestamp(tx[field])
             ELSE ScanFields(tx, k + 1)

\* Lines 328-329.
LaterOf(latest_timestamp, timestamp) ==
    IF timestamp # NoneInt
       /\ (latest_timestamp = NoneInt \/ timestamp[1] > latest_timestamp[1])
    THEN timestamp
    ELSE latest_timestamp

\* The items of a transactions list: a JSON object with its fields, a JSON
\* string (`field in tx` is then a substring test, false for the strings of
\* this model), a JSON number (`field in tx` raises TypeError).
TxObject(fields) == [t |-> "object", fields |-> fields]

TxString == [t |-> "string"]

TxNumber == [t |-> "number"]

\* Lines 312-333 over the records 1..k of a list without numbers.
RECURSIVE LatestUpTo(_, _)
LatestUpTo(transactions, k) ==
    IF k = 0
    THEN NoneInt
    ELSE LET latest_timestamp == LatestUpTo(transactions, k - 1)
             tx == transactions[k]
         IN  IF tx.t = "object"
             THEN LaterOf(latest_timestamp, ScanFields(tx.fields, 1))
             ELSE latest_timestamp

\* Line 317 raises TypeError on an item that is no container.
ScanRaises(transactions) ==
    \E k \in 1..Len(transactions) : transactions[k].t = "number"

\* The JSON bodies: a list, an object (its keys with their values), anything
\* else.
JsonList(items) == [t |-> "list", items |-> items]

JsonObject(keys) == [t |-> "dict", keys |-> keys]

JsonOther == [t |-> "other"]

\* Lines 306-309: the value of the first of possible_keys, from key k on,
\* that the object holds with a list under it.
RECURSIVE FirstListUnder(_, _)
FirstListUnder(data, k) ==
    IF k > Len(possible_keys)
    THEN <<>>
    ELSE LET key == possible_keys[k]
         IN  IF key \in DOMAIN data /\ data[key].t = "list"
             THEN data[key].items
             ELSE FirstListUnder(data, k + 1)

\* Lines 301-309.
Transactions(data) ==
    CASE data.t = "list" -> data.items
      [] data.t = "dict" -> FirstListUnder(data.keys, 1)
      [] OTHER           -> <<>>

\* The bodies an endpoint answers with in this model.
TxBodies ==
    { JsonList(<<>>),
      JsonOther,
      JsonObject([items |-> JsonList(<<TxObject([timestamp |-> DigitString(Old)])>>)]),
      JsonObject([items |-> JsonOther,
                  result |-> JsonList(<<TxObject([block_timestamp |-> IsoString(Future)])>>)]),
      JsonList(<<TxNumber>>),
      JsonList(<<TxObject([timestamp |-> DigitString(Epoch)])>>),
      JsonList(<<TxObject([timestamp |-> OtherString, time |-> JsonInt(Older)]),
                 TxString,
                 TxObject([created_at |-> JsonNull, block_time |-> JsonInt(Old)])>>),
      JsonList(<<TxObject([timestamp |-> JsonInt(Old),
                           block_timestamp |-> JsonInt(Future)])>>) }

\* What one endpoint request can come to: a RequestException (a timeout is
\* one), a status other than 200, a body that is no JSON, a JSON body.
TxResponses ==
    { [kind |-> k] : k \in {"neterr", "status", "jsonerr"} }
        \cup { [kind |-> "json", data |-> d] : d \in TxBodies }

\* Lines 297-344 for one response: go on to the next endpoint, return the age
\* of the latest timestamp, or raise (TypeError, which none of the handlers
\* inside the loop catches).
EndpointOutcome(resp) ==
    IF resp.kind # "json"
    THEN [do |-> "next"]
    ELSE LET transactions == Transactions(resp.data)
         IN  IF transactions = <<>>
             THEN [do |-> "next"]
             ELSE IF ScanRaises(transactions)
             THEN [do |-> "raise"]
             ELSE LET latest_timestamp ==
                          LatestUpTo(transactions, Len(transactions))
                  IN  IF latest_timestamp # NoneInt /\ latest_timestamp[1] # 0
                      THEN [do |-> "return",
                            minutes_ago |-> MinutesAgo(latest_timestamp[1])]
                      ELSE [do |-> "next"]


\* A slip: the all-zero address is not short-circuited.
ShortCircuitNullOnly(addr) == ~Truthy(addr)

\* Line 273: no request for a missing or all-zero address.
ShortCircuit(addr) == ~Truthy(addr) \/ addr = ZERO_ADDRESS

\* get_last_internal_tx_time(addr) called from outside.
CallTx ==
    /\ pc \in {"idle", "returned", "raised"}
    /\ \E addr \in {None, "", ZERO_ADDRESS} \cup Addresses : eoa_address' = addr
    /\ op' = "tx"
    /\ pc' = "tx"
    /\ tx_requests' = <<>>
    /\ endpoint' = 0
    /\ last_tx_minutes' = NoneInt
    /\ nodes_data' = <<>>
    /\ eoa_addresses' = EmptyDict
    /\ eoa_status' = "none"
    /\ eoa_list' = <<>>
    /\ attempt' = 0
    /\ rlog' = <<>>
    /\ i' = 0
    /\ results' = <<>>
    /\ peer_info' = EmptyDict
    /\ log' = <<>>
    /\ UNCHANGED <<w3, contract>>
    /\ UNCHANGED managerVars
    /\ UNCHANGED <<tx_responses, cycleVars>>

\* Lines 273-274: the short circuit, and otherwise the entry into the loop.
TxEnter ==
    /\ pc = "tx"
    /\ IF ShortCircuit(eoa_address)
       THEN /\ last_tx_minutes' = NoneInt
            /\ pc' = "tx_ret"
            /\ UNCHANGED endpoint
       ELSE /\ endpoint' = 1
            /\ pc' = "tx_loop"
            /\ UNCHANGED last_tx_minutes
    /\ UNCHANGED <<op, w3, contract, nodes_data, eoa_addresses, eoa_status,
                   eoa_list, attempt, rlog, i, results, peer_info, eoa_address,
                   tx_requests, log>>
    /\ UNCHANGED managerVars
    /\ UNCHANGED <<tx_responses, cycleVars>>

\* A slip: the outer handler lets the exception out.
AfterExceptionRaises == "raised"

\* Lines 348-350: the outer handler ends the call, which returns None.
AfterException == "tx_ret"

\* A slip: every other endpoint is passed over.
NextEndpointSkips(e) == e + 2

\* Line 293: the loop goes through api_endpoints in the list's order.
NextEndpoint(e) == e + 1

\* Lines 293-350: one iteration of the endpoint loop; `record` tells whether
\* the response is kept in tx_responses.
TxIteration(record) ==
    /\ pc = "tx_loop"
    /\ tx_requests' = Append(tx_requests, endpoint)
    /\ \E resp \in TxResponses :
          /\ tx_responses' =
                 IF record THEN Append(tx_responses, resp) ELSE tx_responses
          /\ LET outcome == EndpointOutcome(resp)
             IN  CASE outcome.do = "raise" ->
                        /\ last_tx_minutes' = NoneInt
                        /\ pc' = AfterException
                        /\ UNCHANGED endpoint
                   [] outcome.do = "return" ->
                        /\ last_tx_minutes' = Some(outcome.minutes_ago)
                        /\ pc' = "tx_ret"
                        /\ UNCHANGED endpoint
                   [] outcome.do = "next" ->
                        IF NextEndpoint(endpoint) <= NumEndpoints
                        THEN /\ endpoint' = NextEndpoint(endpoint)
                             /\ UNCHANGED <<pc, last_tx_minutes>>
                        ELSE /\ last_tx_minutes' = NoneInt
                             /\ pc' = "tx_ret"
                             /\ UNCHANGED endpoint
    /\ UNCHANGED <<op, w3, contract, nodes_data, eoa_addresses, eoa_status,
                   eoa_list, attempt, rlog, i, results, peer_info, eoa_address,
                   log>>
    /\ UNCHANGED managerVars
    /\ UNCHANGED cycleVars

TxRequest == TxIteration(FALSE)

\* The prober returns: into collect_node_data (line 389), or to the outside
\* caller. Its frame is gone.
TxReturn ==
    /\ pc = "tx_ret"
    /\ pc' = IF op = "collect" THEN "emit" ELSE "returned"
    /\ tx_requests' = <<>>
    /\ tx_responses' = <<>>
    /\ endpoint' = 0
    /\ UNCHANGED <<op, w3, contract, nodes_data, eoa_addresses, eoa_status,
                   eoa_list, attempt, rlog, i, results, peer_info, eoa_address,
                   last_tx_minutes, log>>
    /\ UNCHANGED managerVars
    /\ UNCHANGED cycleVars

\* ------------------------------------------- the collector's specification

Next ==
    \/ CallCollect
    \/ EoaUnavailable
    \/ EoaEnter
    \/ EoaAttemptOk
    \/ EoaAttemptFail
    \/ EoaReturn
    \/ PeerInfo
    \/ EmitRecord
    \/ CallTx
    \/ TxEnter
    \/ TxRequest
    \/ TxReturn

Spec == Init /\ [][Next]_vars

\* ------------------------------------------- the prober on its own

\* The endpoint loop with every response kept.
ProbeRequest == TxIteration(TRUE)

NextProbe ==
    \/ CallTx
    \/ TxEnter
    \/ ProbeRequest
    \/ TxReturn

SpecProbe == Init /\ [][NextProbe]_vars

\* ------------------------------------------- properties of the collector

\* The peer-info requests of the running collect call, in order; the k-th is
\* the request for descriptor k.
PeerEvents == SelectSeq(log, LAMBDA e : e.ev = "peer")

\* The running collect call was ended by get_peer_info raising on a body
\* that is no JSON object.
RaisedOnNonObject ==
    /\ log # <<>>
    /\ log[Len(log)].ev = "peer"
    /\ log[Len(log)].resp.kind = "nondict"
    /\ log[Len(log)].node = Len(results) + 1

\* C1: collect_node_data returns one record per descriptor, in the roster's
\* order: at every moment the records built so far are those of the first
\* descriptors, each with its descriptor's id, custom_name and hardware_type;
\* on return there are as many records as descriptors, whatever the resolver,
\* the peer-info requests and the prober came to; and the call ends without
\* returning only when a peer-status body was no JSON object.
C1_OneRecordPerDescriptor ==
    op = "collect" =>
        /\ Len(results) <= Len(nodes_data)
        /\ \A k \in 1..Len(results) :
              /\ results[k].id = nodes_data[k].node_id
              /\ results[k].custom_name = nodes_data[k].custom_name
              /\ results[k].hardware_type = nodes_data[k].hardware_type
        /\ pc = "returned" => Len(results) = Len(nodes_data)
        /\ pc = "raised" => RaisedOnNonObject

\* C1's case: a roster of two rows with the same identifier, returned with one
\* default record and one record carrying a transaction age.
C1_Witness ==
    /\ op = "collect"
    /\ pc = "returned"
    /\ Len(nodes_data) = 2
    /\ Len(results) = 2
    /\ nodes_data[1].node_id = nodes_data[2].node_id
    /\ nodes_data[1].custom_name # nodes_data[2].custom_name
    /\ results[1].api_name = "UNKNOWN"
    /\ results[2].last_tx_minutes_ago # NoneInt

\* The default record of lines 370-381 for a descriptor, with the address the
\* resolver's mapping holds for it.
IsDefaultRecord(r, node) ==
    /\ r.id = node.node_id
    /\ r.online = FALSE
    /\ r.reward = 0
    /\ r.score = 0
    /\ r.last_tx_minutes_ago = NoneInt
    /\ r.api_name = "UNKNOWN"
    /\ r.address = DictGet(eoa_addresses, node.node_id)

\* C2: when get_peer_info returned None for descriptor k, the record of k is
\* the default record with the resolver's address for k, and the loop goes on:
\* the next descriptor's peer-info request is made or about to be made, and
\* the call returns one record per descriptor unless a later request raises.
C2_AbsentPeerInfoRecord ==
    op = "collect" =>
        \A k \in 1..Len(PeerEvents) :
            PeerEvents[k].resp.kind = "error" =>
                /\ PeerEvents[k].node = k
                /\ Len(results) >= k
                /\ IsDefaultRecord(results[k], nodes_data[k])
                /\ k < Len(nodes_data) =>
                      \/ Len(PeerEvents) > k
                      \/ pc = "peer" /\ i = k + 1
                /\ k = Len(nodes_data) => pc = "returned"

\* C2's case: the first of two fetches returned None, its record carries a
\* resolved address, and the second descriptor was processed to a record
\* built from peer info.
C2_Witness ==
    /\ op = "collect"
    /\ pc = "returned"
    /\ Len(results) = 2
    /\ PeerEvents[1].resp.kind = "error"
    /\ results[1].address \in Addresses
    /\ results[2].api_name = "peer-x"

\* The value the result loop leaves for position k of the returned list.
AtPosition(addrs, k) ==
    IF k <= Len(addrs) /\ addrs[k] # ZERO_ADDRESS THEN addrs[k] ELSE None

\* The last position of an identifier in the input list.
LastPosition(node_ids, id) ==
    CHOOSE k \in 1..Len(node_ids) :
        /\ node_ids[k] = id
        /\ \A m \in (k + 1)..Len(node_ids) : node_ids[m] # id

\* C3 as stated: after a successful contract call every input identifier has
\* an entry, and the identifier at position k maps to the address at
\* position k of the returned list (None for the all-zero address and for a
\* position beyond the list's end).
C3_PositionwiseMapping ==
    (pc = "eoa_ret" /\ eoa_status = "ok") =>
        LET node_ids == NodeIds(nodes_data)
        IN  /\ DOMAIN eoa_addresses = { node_ids[k] : k \in 1..Len(node_ids) }
            /\ \A k \in 1..Len(node_ids) :
                  eoa_addresses[node_ids[k]] = AtPosition(eoa_list, k)

\* C3, amended: after a successful contract call every input identifier has
\* an entry and no other key exists; an identifier maps to the address at its
\* last position in the input (None for the all-zero address and for a
\* position beyond the list's end), so for identifiers that occur once the
\* mapping is position by position.
C3_LastPositionMapping ==
    (pc = "eoa_ret" /\ eoa_status = "ok") =>
        LET node_ids == NodeIds(nodes_data)
            ids == { node_ids[k] : k \in 1..Len(node_ids) }
        IN  /\ DOMAIN eoa_addresses = ids
            /\ \A id \in ids :
                  eoa_addresses[id] =
                      AtPosition(eoa_list, LastPosition(node_ids, id))

\* C3's case: two distinct identifiers, the first answered with the all-zero
\* address and the second with an address.
C3_Witness ==
    /\ pc = "eoa_ret"
    /\ eoa_status = "ok"
    /\ Len(nodes_data) = 2
    /\ nodes_data[1].node_id # nodes_data[2].node_id
    /\ eoa_list = <<ZERO_ADDRESS, "0xB2">>
    /\ eoa_addresses[nodes_data[1].node_id] = None
    /\ eoa_addresses[nodes_data[2].node_id] = "0xB2"

\* C4: the prober makes no request for a node without peer info or without a
\* resolved address. Inside collect_node_data the prober runs only for a node
\* whose peer info is present and whose address in the resolver's mapping is
\* not None, and with that address; every record of a node without peer info
\* or without address has last_tx_minutes_ago None; and a call with a None or
\* all-zero address, from wherever, returns None having requested nothing.
C4_ProberOnlyWithAddress ==
    /\ (op = "collect" /\ pc \in {"tx", "tx_loop", "tx_ret"}) =>
          /\ Len(PeerEvents) = i
          /\ ~PeerAbsent(PeerEvents[i].resp)
          /\ DictGet(eoa_addresses, nodes_data[i].node_id) # None
          /\ eoa_address = DictGet(eoa_addresses, nodes_data[i].node_id)
    /\ op = "collect" =>
          \A k \in 1..Len(results) :
              (results[k].address = None \/ PeerAbsent(PeerEvents[k].resp))
                  => results[k].last_tx_minutes_ago = NoneInt
    /\ tx_requests # <<>> => eoa_address \notin {None, "", ZERO_ADDRESS}
    /\ (pc = "tx_ret" /\ eoa_address \in {None, "", ZERO_ADDRESS}) =>
          /\ tx_requests = <<>>
          /\ last_tx_minutes = NoneInt

\* C4's case: a returned collect call in which one node had peer info but no
\* address (no prober call, age None) and another node's prober call gave an
\* age.
C4_Witness ==
    /\ op = "collect"
    /\ pc = "returned"
    /\ Len(results) = 2
    /\ ~PeerAbsent(PeerEvents[1].resp)
    /\ results[1].address = None
    /\ results[1].last_tx_minutes_ago = NoneInt
    /\ results[2].address # None
    /\ results[2].last_tx_minutes_ago # NoneInt

\* One failed attempt that is not the last: the failure, the 10-second
\* delay, the reconnection.
FailedRound ==
    << [ev |-> "call", ok |-> FALSE], [ev |-> "sleep", secs |-> 10],
       [ev |-> "reconnect"] >>

RECURSIVE FailedRounds(_)
FailedRounds(k) == IF k = 0 THEN <<>> ELSE FailedRound \o FailedRounds(k - 1)

\* What the invocation did from its first attempt on: its log without the
\* reconnection of the connectivity check that precedes the attempts.
AttemptLog ==
    IF rlog # <<>> /\ rlog[1].ev = "reconnect" THEN Tail(rlog) ELSE rlog

\* C5: one get_eoa_addresses_batch invocation attempts the contract read at
\* most 3 times and stops at the first success; each failed attempt but the
\* third is followed by exactly one 10-second delay and then one
\* reconnection, and then by the next attempt; nothing follows a success or
\* the third failure.
C5_RetryPolicy ==
    /\ pc = "eoa_call" =>
          /\ attempt \in 0..2
          /\ AttemptLog = FailedRounds(attempt)
    /\ pc = "eoa_ret" =>
          \/ /\ eoa_status = "ok"
             /\ \E k \in 0..2 :
                   AttemptLog = Append(FailedRounds(k), [ev |-> "call", ok |-> TRUE])
          \/ /\ eoa_status = "exhausted"
             /\ AttemptLog = Append(FailedRounds(2), [ev |-> "call", ok |-> FALSE])
          \/ /\ eoa_status = "unavailable"
             /\ AttemptLog = <<>>

\* C5's case: an invocation that succeeded on its third attempt.
C5_Witness ==
    /\ pc = "eoa_ret"
    /\ eoa_status = "ok"
    /\ Len(SelectSeq(rlog, LAMBDA e : e.ev = "call")) = 3
    /\ Len(SelectSeq(rlog, LAMBDA e : e.ev = "sleep")) = 2

\* Address resolution failed as a whole.
ResolutionFailed == eoa_status \in {"exhausted", "unavailable"}

\* C6: when address resolution failed as a whole (three failed attempts, or
\* contract or connection unavailable), every identifier of the batch is
\* unresolved and no record of the call carries an address; the call still
\* returns one record per descriptor, and ends without returning only when a
\* peer-status body was no JSON object.
C6_FailedResolutionAllUnresolved ==
    (op = "collect" /\ ResolutionFailed) =>
        /\ \A k \in 1..Len(nodes_data) :
              DictGet(eoa_addresses, nodes_data[k].node_id) = None
        /\ \A k \in 1..Len(results) : results[k].address = None
        /\ pc = "returned" => Len(results) = Len(nodes_data)
        /\ pc = "raised" => RaisedOnNonObject

\* C6's case: all three attempts failed, and the call returned two records,
\* one of them built from peer info.
C6_Witness ==
    /\ op = "collect"
    /\ eoa_status = "exhausted"
    /\ pc = "returned"
    /\ Len(results) = 2
    /\ results[1].api_name = "UNKNOWN"
    /\ results[2].api_name = "peer-x"

\* C22 as stated: the record of a descriptor whose peer-status request was
\* answered with a JSON object has each of peerName, online, score, reward
\* from the object, and the default ("Unknown", false, 0, 0) for each one
\* the object lacks, the empty object included.
C22_DefaultsForMissingFields ==
    op = "collect" =>
        \A k \in 1..Len(results) :
            PeerEvents[k].resp.kind = "dict" =>
                LET data == PeerEvents[k].resp.data
                IN  /\ results[k].api_name
                           = DictGetDefault(data, "peerName", "Unknown")
                    /\ results[k].online
                           = DictGetDefault(data, "online", FALSE)
                    /\ results[k].reward = DictGetDefault(data, "score", 0)
                    /\ results[k].score = DictGetDefault(data, "reward", 0)

\* C23 as stated: in the log of a collect call every peer-info request but
\* the last is followed by the delay of one second, so that the delay lies
\* between the requests of any two consecutive descriptors.
C23_DelayBetweenNodes ==
    op = "collect" =>
        \A j \in 1..(Len(log) - 1) :
            log[j].ev = "peer" => log[j + 1] = SleepEvent(NodeDelay)

\* ------------------------------------------- properties of the prober

\* The timestamps the records of a response give, each record giving the
\* timestamp of its first timestamp field that is there and parses.
RecordTimestamps(resp) ==
    IF resp.kind # "json"
    THEN {}
    ELSE LET transactions == Transactions(resp.data)
             objects == { k \in 1..Len(transactions) :
                              transactions[k].t = "object" }
         IN  { ScanFields(transactions[k].fields, 1)[1] :
                   k \in { o \in objects :
                               ScanFields(transactions[o].fields, 1) # NoneInt } }

\* The endpoints 1..n in the list's order.
InListOrder(n) == [k \in 1..n |-> k]

\* The age of one of a response's timestamps.
AgeFrom(resp, minutes) ==
    /\ minutes # NoneInt
    /\ \E ts \in RecordTimestamps(resp) : minutes[1] = MinutesAgo(ts)

C12_NoneOnlyAfterAllEndpoints ==
    (pc = "tx_ret" /\ ~ShortCircuit(eoa_address) /\ last_tx_minutes = NoneInt)
        => tx_requests = InListOrder(NumEndpoints)

\* C13: get_last_internal_tx_time never raises: a call from outside is in
\* the function or has returned, whatever the address and the responses
\* were, and what it returns is None or an integer.
C13_NeverRaises ==
    op = "tx" =>
        /\ pc \in {"tx", "tx_loop", "tx_ret", "returned"}
        /\ pc \in {"tx_ret", "returned"} =>
              \/ last_tx_minutes = NoneInt
              \/ /\ Len(last_tx_minutes) = 1
                 /\ last_tx_minutes[1] \in Int

\* C13's case: the first endpoint answered with a list of numbers, on which
\* the scan raises TypeError, and the call returned None.
C13_Witness ==
    /\ op = "tx"
    /\ pc = "tx_ret"
    /\ tx_requests = <<1>>
    /\ tx_responses[1].kind = "json"
    /\ ScanRaises(Transactions(tx_responses[1].data))
    /\ last_tx_minutes = NoneInt

\* C14 as stated: no two records of the RecordSet collect_node_data builds
\* have the same id.
C14_UniqueIds ==
    op = "collect" =>
        \A j, k \in 1..Len(results) :
            j # k => results[j].id # results[k].id

\* C15 as stated: what the prober returns, and with it every record's
\* last_tx_minutes_ago, is None or an integer that is not negative.
C15_NonNegativeAge ==
    /\ last_tx_minutes = NoneInt \/ last_tx_minutes[1] >= 0
    /\ \A k \in 1..Len(results) :
          \/ results[k].last_tx_minutes_ago = NoneInt
          \/ results[k].last_tx_minutes_ago[1] >= 0

\* The names of line 314 as a set.
TimestampFieldNames ==
    { timestamp_fields[j] : j \in 1..Len(timestamp_fields) }

\* The timestamps of a response taken over every timestamp field of every
\* record: each field that is there, true and parses.
AllFieldTimestamps(resp) ==
    IF resp.kind # "json"
    THEN {}
    ELSE LET transactions == Transactions(resp.data)
         IN  { ParseTimestamp(transactions[k].fields[f])[1] :
                   <<k, f>> \in
                       { kf \in (1..Len(transactions)) \X TimestampFieldNames :
                             /\ transactions[kf[1]].t = "object"
                             /\ kf[2] \in DOMAIN transactions[kf[1]].fields
                             /\ FieldTruthy(transactions[kf[1]].fields[kf[2]])
                             /\ ParseTimestamp(transactions[kf[1]].fields[kf[2]])
                                    # NoneInt } }

\* The greatest element of a set of integers that is not empty.
MaxOf(S) == CHOOSE m \in S : \A n \in S : n <= m

\* C21 as stated: the age a call returns is the age of the greatest of the
\* timestamps of the answering endpoint's response, taken over all records
\* and all timestamp fields of each record.
C21_LatestOverAllFields ==
    (pc = "tx_ret" /\ last_tx_minutes # NoneInt /\ tx_responses # <<>>) =>
        LET resp == tx_responses[Len(tx_responses)]
        IN  /\ AllFieldTimestamps(resp) # {}
            /\ last_tx_minutes[1] = MinutesAgo(MaxOf(AllFieldTimestamps(resp)))

\* ------------------------------------------- DataManager.calculate_changes

\* A slip: the ages are tested for truth, so an age of 0 counts as missing.
ChangeEntryTruthyAges(current, prev) ==
    [ reward_change |-> current.reward - prev.reward,
      score_change |-> current.score - prev.score,
      online_change |-> current.online # prev.online,
      tx_time_change |->
          IF /\ current.last_tx_minutes_ago # NoneInt
             /\ current.last_tx_minutes_ago # Some(0)
             /\ prev.last_tx_minutes_ago # NoneInt
             /\ prev.last_tx_minutes_ago # Some(0)
          THEN Some(current.last_tx_minutes_ago[1] - prev.last_tx_minutes_ago[1])
          ELSE NoneInt ]

\* A slip: the deltas are previous minus current.
ChangeEntryReversed(current, prev) ==
    [ reward_change |-> prev.reward - current.reward,
      score_change |-> prev.score - current.score,
      online_change |-> current.online # prev.online,
      tx_time_change |->
          IF /\ current.last_tx_minutes_ago # NoneInt
             /\ prev.last_tx_minutes_ago # NoneInt
          THEN Some(prev.last_tx_minutes_ago[1] - current.last_tx_minutes_ago[1])
          ELSE NoneInt ]

\* Lines 73-81: the entry of one id.
ChangeEntry(current, prev) ==
    [ reward_change |-> current.reward - prev.reward,
      score_change |-> current.score - prev.score,
      online_change |-> current.online # prev.online,
      tx_time_change |->
          IF /\ current.last_tx_minutes_ago # NoneInt
             /\ prev.last_tx_minutes_ago # NoneInt
          THEN Some(current.last_tx_minutes_ago[1] - prev.last_tx_minutes_ago[1])
          ELSE NoneInt ]

\* Line 67: the dict comprehension over previous_data[1..k]; a later record
\* of an id replaces an earlier one.
RECURSIVE PrevDictUpTo(_, _)
PrevDictUpTo(prev, k) ==
    IF k = 0
    THEN EmptyDict
    ELSE DictSet(PrevDictUpTo(prev, k - 1), prev[k].id, prev[k])

\* Lines 69-81: the loop over current_data[1..k].
RECURSIVE ChangesUpTo(_, _, _)
ChangesUpTo(cur, prev_dict, k) ==
    IF k = 0
    THEN EmptyDict
    ELSE LET result == ChangesUpTo(cur, prev_dict, k - 1)
             current == cur[k]
             node_id == current.id
         IN  IF node_id \in DOMAIN prev_dict
             THEN DictSet(result, node_id,
                          ChangeEntry(current, prev_dict[node_id]))
             ELSE result

\* `not previous_data`: None or the empty list.
NotPrevious(prev) == prev = NoneInt \/ prev[1] = <<>>

\* A slip: the return sits inside the loop, which so ends after its first
\* record.
CalculateChangesFirstOnly(cur, prev) ==
    IF NotPrevious(prev)
    THEN EmptyDict
    ELSE ChangesUpTo(cur, PrevDictUpTo(prev[1], Len(prev[1])),
                     IF Len(cur) > 0 THEN 1 ELSE 0)

\* calculate_changes(current_data, previous_data); previous_data is optional.
CalculateChanges(cur, prev) ==
    IF NotPrevious(prev)
    THEN EmptyDict
    ELSE ChangesUpTo(cur, PrevDictUpTo(prev[1], Len(prev[1])), Len(cur))

\* The records calculate_changes is applied to: three ids, each with one of
\* three sets of values (no age, age 0, age 7).
ChangeRecords ==
    { [ id |-> n, custom_name |-> "akk", api_name |-> "peer-x",
        hardware_type |-> "CPU", address |-> None,
        reward |-> v[1], score |-> v[2], online |-> v[3],
        last_tx_minutes_ago |-> v[4] ] :
      n \in {"n1", "n2", "n3"},
      v \in { <<0, 0, FALSE, NoneInt>>, <<2, 1, TRUE, Some(0)>>,
              <<5, 1, FALSE, Some(7)>> } }

RecordSets == SeqsUpTo(ChangeRecords, MaxNodes)

InitChanges ==
    /\ pc = "call"
    /\ op = "calculate_changes"
    /\ InitCollector
    /\ current_data \in RecordSets
    /\ previous_data \in {NoneInt} \cup { Some(rs) : rs \in RecordSets }
    /\ changes = EmptyDict
    /\ history = <<>>
    /\ appended = <<>>
    /\ clock = 0
    /\ failures = 0
    /\ InitMonitor

CalculateChangesCall ==
    /\ pc = "call"
    /\ op = "calculate_changes"
    /\ changes' = CalculateChanges(current_data, previous_data)
    /\ pc' = "returned"
    /\ UNCHANGED <<op, w3, contract, nodes_data, eoa_addresses, eoa_status,
                   eoa_list, attempt, rlog, i, results, peer_info, eoa_address,
                   endpoint, tx_requests, last_tx_minutes, log>>
    /\ UNCHANGED <<current_data, previous_data, history, appended, clock,
                   failures>>
    /\ UNCHANGED <<tx_responses, cycleVars>>

NextChanges == CalculateChangesCall

SpecChanges == InitChanges /\ [][NextChanges]_vars

\* ------------------------------------------- DataManager.save_to_history

HistoryCap == 100

\* A slip: the slice keeps the oldest entries.
TrimHistoryKeepsOldest(h) ==
    IF Len(h) > HistoryCap THEN SubSeq(h, 1, HistoryCap) ELSE h

\* Lines 52-53: history[-100:] once there are more than 100 entries.
TrimHistory(h) ==
    IF Len(h) > HistoryCap
    THEN SubSeq(h, Len(h) - HistoryCap + 1, Len(h))
    ELSE h

\* The RecordSet handed to the n-th save_to_history call: one record, whose
\* counter changes from call to call.
DataOfCall(n) ==
    << [ id |-> "n1", custom_name |-> "akk", api_name |-> "peer-x",
         hardware_type |-> "CPU", address |-> None,
         reward |-> n % 3, score |-> 0, online |-> TRUE,
         last_tx_minutes_ago |-> NoneInt ] >>

\* Lines 46-49: the entry of the n-th call; the wall clock is the call's
\* number.
HistoryEntry(n) == [timestamp |-> n, data |-> DataOfCall(n)]

\* Lines 41-58: the file is read, the entry appended, the list trimmed and
\* written.
SaveToHistory ==
    /\ pc = "idle"
    /\ clock < MaxSaves
    /\ clock' = clock + 1
    /\ history' = TrimHistory(Append(history, HistoryEntry(clock + 1)))
    /\ appended' = Append(appended, HistoryEntry(clock + 1))
    /\ UNCHANGED <<current_data, previous_data, changes, failures>>
    /\ UNCHANGED collectorVars
    /\ UNCHANGED cycleVars

\* Lines 59-60: the read of the file, or its opening for writing, raises;
\* the handler logs and the file is as it was.
SaveToHistoryFails ==
    /\ pc = "idle"
    /\ clock < MaxSaves
    /\ failures < MaxFailures
    /\ clock' = clock + 1
    /\ failures' = failures + 1
    /\ UNCHANGED <<current_data, previous_data, changes, history, appended>>
    /\ UNCHANGED collectorVars
    /\ UNCHANGED cycleVars

NextHistory == SaveToHistory \/ SaveToHistoryFails

SpecHistory == Init /\ [][NextHistory]_vars

\* ------------------------------------------- the reports

\* The status texts of the reports are named here by the variables that
\* count them in the statistics: no_data, very_active, active, warning,
\* problem.

\* A slip: the first boundary is upper-inclusive.
GetStatusTextUpperInclusive(tx_minutes) ==
    IF tx_minutes = NoneInt THEN "no_data"
    ELSE IF tx_minutes[1] <= 10 THEN "very_active"
    ELSE IF tx_minutes[1] < 30 THEN "active"
    ELSE IF tx_minutes[1] < 60 THEN "warning"
    ELSE "problem"

\* DataManager.get_status_text (data_manager.py, lines 85-95).
GetStatusText(tx_minutes) ==
    IF tx_minutes = NoneInt THEN "no_data"
    ELSE IF tx_minutes[1] < 10 THEN "very_active"
    ELSE IF tx_minutes[1] < 30 THEN "active"
    ELSE IF tx_minutes[1] < 60 THEN "warning"
    ELSE "problem"

\* sum(node.get('reward', 0) for node in data), over the records 1..k.
RECURSIVE TotalReward(_, _)
TotalReward(data, k) ==
    IF k = 0 THEN 0 ELSE TotalReward(data, k - 1) + data[k].reward

\* The ages of the records for which a condition on the age holds.
Ages(data) == [k \in 1..Len(data) |-> data[k].last_tx_minutes_ago]

\* print_console_report's statistics (data_manager.py, lines 157, 171-175).
ConsoleStats(data) ==
    LET age == Ages(data)
        known == { k \in 1..Len(data) : age[k] # NoneInt }
    IN  [ total_reward |-> TotalReward(data, Len(data)),
          very_active |-> Cardinality({ k \in known : age[k][1] < 10 }),
          active |-> Cardinality({ k \in known :
                                       10 <= age[k][1] /\ age[k][1] < 30 }),
          warning |-> Cardinality({ k \in known :
                                        30 <= age[k][1] /\ age[k][1] < 60 }),
          problem |-> Cardinality({ k \in known : age[k][1] >= 60 }),
          no_data |-> Cardinality({ k \in 1..Len(data) : age[k] = NoneInt }) ]

\* create_main_report's statistics (telegram_notifier.py, lines 85, 99-103).
MainReportStats(data) ==
    LET age == Ages(data)
        known == { k \in 1..Len(data) : age[k] # NoneInt }
    IN  [ total_reward |-> TotalReward(data, Len(data)),
          very_active |-> Cardinality({ k \in known : age[k][1] < 10 }),
          active |-> Cardinality({ k \in known :
                                       10 <= age[k][1] /\ age[k][1] < 30 }),
          warning |-> Cardinality({ k \in known :
                                        30 <= age[k][1] /\ age[k][1] < 60 }),
          problem |-> Cardinality({ k \in known : age[k][1] >= 60 }),
          no_data |-> Cardinality({ k \in 1..Len(data) : age[k] = NoneInt }) ]

\* create_main_report's lines of changes (telegram_notifier.py, lines
\* 149-160): for an id of `changes` with a record in `data`, the delta shown
\* after "Wins" and the one shown after "Rewards", a delta of 0 not shown.
MainReportChanges(data, chg) ==
    [ node_id \in { id \in DOMAIN chg :
                        \E k \in 1..Len(data) : data[k].id = id } |->
        [ Wins |-> IF chg[node_id].reward_change # 0
                   THEN Some(chg[node_id].reward_change) ELSE NoneInt,
          Rewards |-> IF chg[node_id].score_change # 0
                      THEN Some(chg[node_id].score_change) ELSE NoneInt ] ]

\* create_detailed_report's status (telegram_notifier.py, lines 188-204).
DetailedStatus(tx_time) ==
    IF tx_time = NoneInt THEN "no_data"
    ELSE IF tx_time[1] < 10 THEN "very_active"
    ELSE IF tx_time[1] < 30 THEN "active"
    ELSE IF tx_time[1] < 60 THEN "warning"
    ELSE "problem"

\* create_detailed_report's entry of one node (lines 209-218), without the
\* descriptor's fields.
DetailedEntry(node) ==
    [ ID |-> node.id,
      Wins |-> node.reward,
      Rewards |-> node.score,
      Activity |-> DetailedStatus(node.last_tx_minutes_ago) ]

\* changes.get(node_id, {}).get(key, 0)
ChangeOf(chg, node_id, key) ==
    IF node_id \in DOMAIN chg THEN chg[node_id][key] ELSE 0

\* save_excel_report's row of one node (data_manager.py, lines 101-118),
\* without the descriptor's fields and the time of writing.
ExcelRow(node, chg) ==
    [ ID |-> node.id,
      Wins |-> node.reward,
      WinsChange |-> ChangeOf(chg, node.id, "reward_change"),
      Rewards |-> node.score,
      RewardsChange |-> ChangeOf(chg, node.id, "score_change"),
      LastTx |-> node.last_tx_minutes_ago,
      Status |-> GetStatusText(node.last_tx_minutes_ago) ]

NoReport == [k \in {} |-> None]

\* What print_console_report and save_excel_report make of a RecordSet.
LocalReports(data, chg) ==
    [ console |-> ConsoleStats(data),
      excel |-> [k \in 1..Len(data) |-> ExcelRow(data[k], chg)] ]

\* What create_main_report and create_detailed_report make of it.
TelegramReports(data, chg) ==
    [ main |-> MainReportStats(data),
      main_changes |-> MainReportChanges(data, chg),
      detailed |-> [k \in 1..Len(data) |-> DetailedEntry(data[k])] ]

\* The records the reports are applied to on their own: one node with each
\* of the ages around the boundaries, none, and a negative one.
ReportAges ==
    {NoneInt} \cup { Some(a) : a \in {-2, 0, 9, 10, 29, 30, 59, 60, 61} }

ReportRecords ==
    { [ id |-> "n1", custom_name |-> "akk", api_name |-> "peer-x",
        hardware_type |-> "CPU", address |-> None,
        reward |-> 2, score |-> 1, online |-> TRUE,
        last_tx_minutes_ago |-> a ] : a \in ReportAges }

InitReports ==
    /\ pc = "call"
    /\ op = "reports"
    /\ InitCollector
    /\ current_data \in SeqsUpTo(ReportRecords, MaxNodes)
    /\ previous_data = NoneInt
    /\ changes = EmptyDict
    /\ history = <<>>
    /\ appended = <<>>
    /\ clock = 0
    /\ failures = 0
    /\ InitMonitor

\* The four report builders applied to current_data.
BuildReports ==
    /\ pc = "call"
    /\ op = "reports"
    /\ report' = [ local |-> LocalReports(current_data, changes),
                   telegram |-> TelegramReports(current_data, changes) ]
    /\ pc' = "returned"
    /\ UNCHANGED <<op, w3, contract, nodes_data, eoa_addresses, eoa_status,
                   eoa_list, attempt, rlog, i, results, peer_info, eoa_address,
                   endpoint, tx_requests, tx_responses, last_tx_minutes, log>>
    /\ UNCHANGED managerVars
    /\ UNCHANGED <<phase, sent, excel_path, current_file, torn, files0, saved,
                   persisted>>

NextReports == BuildReports

SpecReports == InitReports /\ [][NextReports]_vars

\* ------------------------------------------- properties of the reports

\* The bucket of an age: lower-inclusive boundaries at 10, 30 and 60.
Bucket(age) ==
    IF age = NoneInt THEN "unknown"
    ELSE IF age[1] < 10 THEN "<10"
    ELSE IF 10 <= age[1] /\ age[1] < 30 THEN "10-30"
    ELSE IF 30 <= age[1] /\ age[1] < 60 THEN "30-60"
    ELSE ">=60"

\* The text (or the statistics counter) that stands for a bucket.
TextOf(bucket) ==
    CASE bucket = "unknown" -> "no_data"
      [] bucket = "<10"     -> "very_active"
      [] bucket = "10-30"   -> "active"
      [] bucket = "30-60"   -> "warning"
      [] bucket = ">=60"    -> "problem"

Buckets == {"unknown", "<10", "10-30", "30-60", ">=60"}

\* How many records of a RecordSet fall into a bucket.
InBucket(data, bucket) ==
    Cardinality({ k \in 1..Len(data) :
                      Bucket(data[k].last_tx_minutes_ago) = bucket })

ReportsBuilt == op = "reports" /\ pc = "returned"

IdsOf(rs) == { rs[k].id : k \in 1..Len(rs) }

\* The ids of the optional previous RecordSet.
PreviousIds == IF previous_data = NoneInt THEN {} ELSE IdsOf(previous_data[1])

\* The last record of an id in a RecordSet.
LastRecord(rs, id) ==
    rs[CHOOSE k \in 1..Len(rs) :
           rs[k].id = id /\ \A m \in (k + 1)..Len(rs) : rs[m].id # id]

ChangesReturned == op = "calculate_changes" /\ pc = "returned"

\* C7: calculate_changes has an entry for an id exactly when the id occurs
\* in the current and in the previous RecordSet; an absent or empty previous
\* RecordSet gives the empty mapping.
C7_EntryIffInBoth ==
    ChangesReturned =>
        /\ DOMAIN changes = IdsOf(current_data) \cap PreviousIds
        /\ (previous_data = NoneInt \/ previous_data = Some(<<>>))
              => changes = EmptyDict

\* C7's case: one id in both RecordSets, one only in the current, one only in
\* the previous.
C7_Witness ==
    /\ ChangesReturned
    /\ IdsOf(current_data) = {"n1", "n2"}
    /\ PreviousIds = {"n2", "n3"}
    /\ DOMAIN changes = {"n2"}

\* C8: for every id in both RecordSets the entry's reward_change is the
\* current record's wins minus the previous record's, score_change likewise
\* for the reward score, and online_change tells whether the online flags
\* differ (of several records with one id, the last of each RecordSet
\* counts); identical RecordSets give deltas 0 and online_change FALSE
\* throughout.
C8_Deltas ==
    ChangesReturned =>
        /\ \A id \in DOMAIN changes :
              LET c == LastRecord(current_data, id)
                  p == LastRecord(previous_data[1], id)
              IN  /\ changes[id].reward_change = c.reward - p.reward
                  /\ changes[id].score_change = c.score - p.score
                  /\ changes[id].online_change = (c.online # p.online)
        /\ previous_data = Some(current_data) =>
              \A id \in IdsOf(current_data) :
                  /\ id \in DOMAIN changes
                  /\ changes[id].reward_change = 0
                  /\ changes[id].score_change = 0
                  /\ changes[id].online_change = FALSE

\* C8's case: an id whose wins rose by 3 while its reward score stayed and
\* its online flag changed.
C8_Witness ==
    /\ ChangesReturned
    /\ "n1" \in DOMAIN changes
    /\ changes["n1"].reward_change = 3
    /\ changes["n1"].score_change = 0
    /\ changes["n1"].online_change = TRUE
    /\ Len(current_data) = 2

\* C9: an entry's tx_time_change is None unless the current and the previous
\* record of the id both have an age, and is then the current age minus the
\* previous one, an age of 0 included.
C9_TxTimeChange ==
    ChangesReturned =>
        \A id \in DOMAIN changes :
            LET c == LastRecord(current_data, id).last_tx_minutes_ago
                p == LastRecord(previous_data[1], id).last_tx_minutes_ago
            IN  IF c # NoneInt /\ p # NoneInt
                THEN changes[id].tx_time_change = Some(c[1] - p[1])
                ELSE changes[id].tx_time_change = NoneInt

\* C9's case: an id whose age went from 0 to 7, beside an id with no age.
C9_Witness ==
    /\ ChangesReturned
    /\ DOMAIN changes = {"n1", "n2"}
    /\ LastRecord(previous_data[1], "n1").last_tx_minutes_ago = Some(0)
    /\ changes["n1"].tx_time_change = Some(7)
    /\ changes["n2"].tx_time_change = NoneInt

\* The last n elements of a sequence.
LastN(s, n) == IF Len(s) <= n THEN s ELSE SubSeq(s, Len(s) - n + 1, Len(s))

RosterRows ==
    Descriptors \cup
        { [node_id |-> None, custom_name |-> "akk 4", hardware_type |-> "CPU"] }

\* The roster file: unreadable (missing, or no Excel file), without one of
\* the columns Name, ID, Type, or a table of rows.
RosterFiles ==
    { [kind |-> "unreadable"], [kind |-> "columns"] }
        \cup { [kind |-> "rows", rows |-> r] :
                   r \in SeqsUpTo(RosterRows, MaxCycleNodes) }

\* read_nodes_data (gensyn_data_collector.py, lines 143-189): the rows with
\* an ID, and the empty list for a file it cannot read or that lacks a
\* column.
ReadNodesData(file) ==
    IF file.kind = "rows"
    THEN SelectSeq(file.rows, LAMBDA row : row.node_id # None)
    ELSE <<>>

\* The RecordSet an earlier cycle saved.
PreviousRecordSet ==
    << [ id |-> "n1", custom_name |-> "akk 1", api_name |-> "peer-x",
         hardware_type |-> "CPU", address |-> "0xA1",
         reward |-> 1, score |-> 1, online |-> FALSE,
         last_tx_minutes_ago |-> Some(5) ] >>

\* The files as a cycle can find them: none yet; both written by an earlier
\* cycle; both left unparseable by writes that failed.
FileStates ==
    { [current |-> NoneInt, history |-> <<>>, torn |-> {},
       persisted |-> [current |-> "none", history |-> "none"]],
      [current |-> Some(PreviousRecordSet),
       history |-> <<[timestamp |-> 0, data |-> PreviousRecordSet]>>,
       torn |-> {},
       persisted |-> [current |-> "ok", history |-> "ok"]],
      [current |-> Some(PreviousRecordSet),
       history |-> <<[timestamp |-> 0, data |-> PreviousRecordSet]>>,
       torn |-> {"current", "history"},
       persisted |-> [current |-> "torn", history |-> "torn"]] }

InitCycle ==
    /\ pc = "idle"
    /\ op = "none"
    /\ InitCollector
    /\ current_data = <<>>
    /\ previous_data = NoneInt
    /\ changes = EmptyDict
    /\ appended = <<>>
    /\ clock = 0
    /\ failures = 0
    /\ phase = "none"
    /\ sent = <<>>
    /\ excel_path = None
    /\ report = NoReport
    /\ files0 = [k \in {} |-> None]
    /\ saved = [k \in {} |-> None]
    /\ \E found \in FileStates :
          /\ current_file = found.current
          /\ history = found.history
          /\ torn = found.torn
          /\ persisted = found.persisted

\* Lines 35-39: the start message.
CycleStart ==
    /\ phase = "none"
    /\ phase' = "read"
    /\ sent' = <<"start">>
    /\ files0' = [current |-> current_file, history |-> history, torn |-> torn]
    /\ saved' = [current |-> "none", history |-> "none"]
    /\ UNCHANGED <<excel_path, report, current_file, torn, persisted>>
    /\ UNCHANGED collectorVars
    /\ UNCHANGED managerVars

\* A slip: the cycle goes on after the error message.
AfterRosterFailureGoesOn == "load"

\* Line 47: `return`.
AfterRosterFailure == "done"

\* Lines 42-47: the roster is read; without nodes the error message is sent
\* and the cycle ends.
CycleReadRoster ==
    /\ phase = "read"
    /\ \E file \in RosterFiles :
          /\ nodes_data' = ReadNodesData(file)
          /\ IF nodes_data' = <<>>
             THEN /\ sent' = Append(sent, "error")
                  /\ phase' = AfterRosterFailure
             ELSE /\ phase' = "load"
                  /\ UNCHANGED sent
    /\ UNCHANGED <<pc, op, w3, contract, eoa_addresses, eoa_status, eoa_list,
                   attempt, rlog, i, results, peer_info, eoa_address, endpoint,
                   tx_requests, tx_responses, last_tx_minutes, log>>
    /\ UNCHANGED managerVars
    /\ UNCHANGED <<excel_path, report, current_file, torn, files0, saved,
                   persisted>>

\* A slip: None is returned whatever the file holds.
LoadPreviousDataNever(file, unparseable) == NoneInt

\* load_previous_data (data_manager.py, lines 20-29): the RecordSet of the
\* file; None when the file is not there (its content is None then) or
\* does not parse. (What json.dump wrote of a RecordSet, json.load reads
\* back as it was: its values are strings, integers, booleans and null.)
LoadPreviousData(file, unparseable) ==
    IF unparseable THEN NoneInt ELSE file

\* Line 49.
CycleLoad ==
    /\ phase = "load"
    /\ previous_data' = LoadPreviousData(current_file, "current" \in torn)
    /\ phase' = "collect"
    /\ UNCHANGED <<current_data, changes, history, appended, clock, failures>>
    /\ UNCHANGED collectorVars
    /\ UNCHANGED <<sent, excel_path, report, current_file, torn, files0, saved,
                   persisted>>

\* Line 51: collect_node_data(nodes_data) is called (its lines 354-358).
CycleCollect ==
    /\ phase = "collect"
    /\ phase' = "collecting"
    /\ op' = "collect"
    /\ pc' = "eoa"
    /\ eoa_addresses' = EmptyDict
    /\ eoa_status' = "none"
    /\ eoa_list' = <<>>
    /\ attempt' = 0
    /\ rlog' = <<>>
    /\ i' = 1
    /\ results' = <<>>
    /\ peer_info' = EmptyDict
    /\ eoa_address' = None
    /\ endpoint' = 0
    /\ tx_requests' = <<>>
    /\ last_tx_minutes' = NoneInt
    /\ log' = <<>>
    /\ UNCHANGED <<w3, contract, nodes_data, tx_responses>>
    /\ UNCHANGED managerVars
    /\ UNCHANGED <<sent, excel_path, report, current_file, torn, files0, saved,
                   persisted>>

\* A slip: the handler raises again, and the exception leaves
\* run_monitoring_cycle for the scheduler loop, which it ends.
AfterCriticalReraises == "exited"

\* Lines 68-71: the handler returns, and with it run_monitoring_cycle.
AfterCritical == "done"

\* Lines 68-71: the handler of the cycle sends the critical-error message.
CycleCritical ==
    /\ \/ phase = "raised"
       \/ phase = "collecting" /\ pc = "raised"
    /\ sent' = Append(sent, "critical_error")
    /\ phase' = AfterCritical
    /\ UNCHANGED collectorVars
    /\ UNCHANGED managerVars
    /\ UNCHANGED <<excel_path, report, current_file, torn, files0, saved,
                   persisted>>

\* Lines 51-53: collect_node_data has returned; calculate_changes.
CycleCalc ==
    /\ phase = "collecting"
    /\ pc = "returned"
    /\ current_data' = results
    /\ changes' = CalculateChanges(results, previous_data)
    /\ phase' = "report"
    /\ UNCHANGED <<previous_data, history, appended, clock, failures>>
    /\ UNCHANGED collectorVars
    /\ UNCHANGED <<sent, excel_path, report, current_file, torn, files0, saved,
                   persisted>>

\* Lines 55-59: print_console_report, which divides by len(data) (its line
\* 179), and save_excel_report, which returns the path, or None when
\* writing failed.
CycleReport ==
    /\ phase = "report"
    /\ IF current_data = <<>>
       THEN /\ phase' = "raised"
            /\ UNCHANGED <<report, excel_path>>
       ELSE /\ report' = [ local |-> LocalReports(current_data, changes),
                           telegram |-> NoReport ]
            /\ \E path \in {None, "path"} : excel_path' = path
            /\ phase' = "notify"
    /\ UNCHANGED collectorVars
    /\ UNCHANGED managerVars
    /\ UNCHANGED <<sent, current_file, torn, files0, saved, persisted>>

\* telegram_notifier.py, line 258.
CriticalAge == 60

\* telegram_notifier.py, line 270.
DetailedLimit == 15

\* critical_nodes is not empty.
HasCriticalNodes(data) ==
    \E k \in 1..Len(data) :
        /\ data[k].last_tx_minutes_ago # NoneInt
        /\ data[k].last_tx_minutes_ago[1] >= CriticalAge

\* Line 61, send_monitoring_notifications (telegram_notifier.py, lines
\* 247-278): the main report; when it was delivered, the alert for nodes an
\* hour and more without transaction, the Excel file when there is one, and
\* the detailed report of a RecordSet of at most 15 records.
CycleNotify ==
    /\ phase = "notify"
    /\ \E success \in BOOLEAN :
          LET detailed == success /\ Len(current_data) <= DetailedLimit
              built == TelegramReports(current_data, changes)
          IN  /\ sent' = sent \o <<"main_report">>
                      \o (IF success /\ HasCriticalNodes(current_data)
                          THEN <<"critical_alert">> ELSE <<>>)
                      \o (IF success /\ excel_path # None
                          THEN <<"document">> ELSE <<>>)
                      \o (IF detailed THEN <<"detailed_report">> ELSE <<>>)
              /\ report' =
                     [ report EXCEPT !.telegram =
                           [ built EXCEPT !.detailed =
                                 IF detailed THEN @ ELSE <<>> ] ]
    /\ phase' = "save_current"
    /\ UNCHANGED collectorVars
    /\ UNCHANGED managerVars
    /\ UNCHANGED <<excel_path, current_file, torn, files0, saved, persisted>>

\* How a write of a file can end: done; failed before the file was opened
\* for writing, which leaves it as it was; failed after, which leaves it cut
\* short.
SaveOutcomes == {"ok", "failed", "torn"}

\* A slip: the handler lets the exception out.
AfterSaveFailureRaises(next) == "raised"

\* data_manager.py, lines 36-37 and 59-60: the handler logs and the
\* operation returns.
AfterSaveFailure(next) == next

\* Line 63, save_current_data (data_manager.py, lines 31-37).
CycleSaveCurrent ==
    /\ phase = "save_current"
    /\ \E outcome \in SaveOutcomes :
          /\ saved' = [saved EXCEPT !.current = outcome]
          /\ persisted' = [current |-> outcome, history |-> "none"]
          /\ CASE outcome = "ok" ->
                     /\ current_file' = Some(current_data)
                     /\ torn' = torn \ {"current"}
                     /\ phase' = "save_history"
               [] outcome = "failed" ->
                     /\ UNCHANGED <<current_file, torn>>
                     /\ phase' = AfterSaveFailure("save_history")
               [] outcome = "torn" ->
                     /\ torn' = torn \cup {"current"}
                     /\ UNCHANGED current_file
                     /\ phase' = AfterSaveFailure("save_history")
    /\ UNCHANGED collectorVars
    /\ UNCHANGED managerVars
    /\ UNCHANGED <<sent, excel_path, report, files0>>

\* A slip: save_to_history is given the previous RecordSet.
HistoryArgumentPrevious(cur, prev) ==
    IF prev = NoneInt THEN <<>> ELSE prev[1]

\* main.py, line 64: save_to_history is given current_data, as
\* save_current_data was.
HistoryArgument(cur, prev) == cur

\* Lines 64-66, save_to_history (data_manager.py, lines 39-60): a history
\* file that does not parse makes json.load raise, so nothing is written.
CycleSaveHistory ==
    /\ phase = "save_history"
    /\ clock' = clock + 1
    /\ \E outcome \in SaveOutcomes :
          /\ "history" \in torn => outcome = "failed"
          /\ saved' = [saved EXCEPT !.history = outcome]
          /\ persisted' = [persisted EXCEPT !.history = outcome]
          /\ CASE outcome = "ok" ->
                     LET history_entry ==
                             [timestamp |-> clock + 1,
                              data |-> HistoryArgument(current_data,
                                                       previous_data)]
                     IN  /\ history' =
                                TrimHistory(Append(history, history_entry))
                         /\ appended' = Append(appended, history_entry)
                         /\ UNCHANGED torn
                         /\ phase' = "done"
               [] outcome = "failed" ->
                     /\ UNCHANGED <<history, appended, torn>>
                     /\ phase' = AfterSaveFailure("done")
               [] outcome = "torn" ->
                     /\ torn' = torn \cup {"history"}
                     /\ UNCHANGED <<history, appended>>
                     /\ phase' = AfterSaveFailure("done")
    /\ UNCHANGED <<current_data, previous_data, changes, failures>>
    /\ UNCHANGED collectorVars
    /\ UNCHANGED <<sent, excel_path, report, current_file, files0>>

NextCycle ==
    \/ CycleStart
    \/ CycleReadRoster
    \/ CycleLoad
    \/ CycleCollect
    \/ EoaUnavailable
    \/ EoaEnter
    \/ EoaAttemptOk
    \/ EoaAttemptFail
    \/ EoaReturn
    \/ PeerInfo
    \/ EmitRecord
    \/ TxEnter
    \/ TxRequest
    \/ TxReturn
    \/ CycleCritical
    \/ CycleCalc
    \/ CycleReport
    \/ CycleNotify
    \/ CycleSaveCurrent
    \/ CycleSaveHistory

SpecCycle == InitCycle /\ [][NextCycle]_vars

\* The cycle runs on one thread, and every call it makes returns (requests
\* have timeouts, the delays are finite): a step that can be taken is taken.
SpecCycleFair == SpecCycle /\ WF_vars(NextCycle)

\* ------------------------------------------- cycle after cycle

\* The cycles the scheduler starts one after the other (main.py, lines
\* 91-98), each finding the files as the cycle before left them. Here
\* collect_node_data is one step; its steps are those of SpecCycle.

\* The records collect_node_data can give for a descriptor: the default
\* record, and one built from peer info, an address and an age.
CollectedRecords(node) ==
    { AbsentRecord(node, AllNone(<<node.node_id>>)),
      PresentRecord(node,
                    [peerName |-> "peer-x", online |-> TRUE,
                     score |-> 2, reward |-> 1],
                    "0xA1", Some(7)) }

\* The RecordSets collect_node_data can return for a roster: one record per
\* descriptor, in the roster's order.
CollectedSets(nodes) ==
    { rs \in [1..Len(nodes) ->
                 UNION { CollectedRecords(nodes[k]) : k \in 1..Len(nodes) }] :
          \A k \in 1..Len(nodes) : rs[k] \in CollectedRecords(nodes[k]) }

\* Line 51, collect_node_data from its call to its end: it returns a
\* RecordSet, or get_peer_info raises in it.
CycleCollected ==
    /\ phase = "collect"
    /\ phase' = "collecting"
    /\ op' = "collect"
    /\ \/ /\ pc' = "returned"
          /\ results' \in CollectedSets(nodes_data)
       \/ /\ pc' = "raised"
          /\ results' = <<>>
    /\ UNCHANGED <<w3, contract, nodes_data, eoa_addresses, eoa_status,
                   eoa_list, attempt, rlog, i, peer_info, eoa_address, endpoint,
                   tx_requests, tx_responses, last_tx_minutes, log>>
    /\ UNCHANGED managerVars
    /\ UNCHANGED <<sent, excel_path, report, current_file, torn, files0, saved,
                   persisted>>

\* main.py, lines 94-96: the interval has passed and run_pending starts the
\* next cycle; of the cycle before, the two files are what is left.
CycleAgain ==
    /\ phase = "done"
    /\ clock < MaxTime
    /\ clock' = clock + 1
    /\ phase' = "none"
    /\ sent' = <<>>
    /\ excel_path' = None
    /\ report' = NoReport
    /\ files0' = [k \in {} |-> None]
    /\ saved' = [k \in {} |-> None]
    /\ pc' = "idle"
    /\ op' = "none"
    /\ nodes_data' = <<>>
    /\ results' = <<>>
    /\ current_data' = <<>>
    /\ previous_data' = NoneInt
    /\ changes' = EmptyDict
    /\ UNCHANGED <<w3, contract, eoa_addresses, eoa_status, eoa_list, attempt,
                   rlog, i, peer_info, eoa_address, endpoint, tx_requests,
                   tx_responses, last_tx_minutes, log>>
    /\ UNCHANGED <<history, appended, failures>>
    /\ UNCHANGED <<current_file, torn, persisted>>

NextCycles ==
    \/ CycleStart
    \/ CycleReadRoster
    \/ CycleLoad
    \/ CycleCollected
    \/ CycleCritical
    \/ CycleCalc
    \/ CycleReport
    \/ CycleNotify
    \/ CycleSaveCurrent
    \/ CycleSaveHistory
    \/ CycleAgain

SpecCycles == InitCycle /\ [][NextCycles]_vars

\* ------------------------------------------- properties of the cycle

\* The running cycle's read of the roster gave no node.
RosterFailed == phase \notin {"none", "read"} /\ nodes_data = <<>>

\* The messages that tell of an error: the one of line 45 and the one of
\* line 70.
ErrorMessages == {"error", "critical_error"}

ErrorsSent == SelectSeq(sent, LAMBDA msg : msg \in ErrorMessages)

\* C16: a cycle whose roster read gave no node (file unreadable, a column
\* missing, no row with an ID) has ended, having sent the start message and
\* the error message and nothing else; collect_node_data was not called
\* (no resolver, peer-info or prober request), no persistence operation was
\* attempted, and both files are as the cycle found them.
C16_RosterFailureEndsCycle ==
    RosterFailed =>
        /\ phase = "done"
        /\ sent = <<"start", "error">>
        /\ pc = "idle" /\ op = "none"
        /\ eoa_status = "none" /\ rlog = <<>>
        /\ log = <<>> /\ tx_requests = <<>>
        /\ results = <<>>
        /\ saved = [current |-> "none", history |-> "none"]
        /\ current_file = files0.current
        /\ history = files0.history
        /\ torn = files0.torn

\* C16's case: the roster file had one row, without ID; the cycle ended with
\* the error message and left the files of an earlier cycle alone.
C16_Witness ==
    /\ RosterFailed
    /\ phase = "done"
    /\ sent[2] = "error"
    /\ current_file = Some(PreviousRecordSet)
    /\ Len(history) = 1
    /\ torn = {}

\* C17 as stated: a cycle that ended after a fatal failure (no roster, an
\* exception that reached the cycle's handler) or after the resolver ran out
\* of attempts has sent exactly one error message.
C17_OneErrorNotification ==
    (phase = "done"
        /\ (RosterFailed \/ pc = "raised" \/ eoa_status = "exhausted"))
        => Len(ErrorsSent) = 1

PersistenceFailed ==
    /\ DOMAIN saved # {}
    /\ \/ saved.current \in {"failed", "torn"}
       \/ saved.history \in {"failed", "torn"}

\* C18: a failure of save_current_data or save_to_history leaves the cycle
\* running to its end: no exception reaches the cycle's handler (no
\* critical-error message), save_to_history is attempted after a failed
\* save_current_data, both were attempted when the cycle has ended, and the
\* main report of the in-memory RecordSet was handed to Telegram before.
C18_PersistenceBestEffort ==
    PersistenceFailed =>
        /\ phase \in {"save_history", "done"}
        /\ "critical_error" \notin { sent[k] : k \in 1..Len(sent) }
        /\ sent[2] = "main_report"
        /\ report.telegram.main = MainReportStats(results)
        /\ saved.current # "none"
        /\ phase = "done" => saved.history # "none"
        /\ current_data = results

\* C18's case: save_current_data failed leaving its file cut short, and
\* save_to_history then appended the RecordSet to the history.
C18_Witness ==
    /\ phase = "done"
    /\ saved = [current |-> "torn", history |-> "ok"]
    /\ "current" \in torn
    /\ Len(history) = Len(files0.history) + 1
    /\ history[Len(history)].data = results
    /\ sent[2] = "main_report"

\* C20: a record built from peer info has the peer service's 'score' under
\* 'reward' and its 'reward' under 'score' (0 for a missing field);
\* calculate_changes takes reward_change from 'reward' and score_change
\* from 'score' (of the last record of an id); and every report shows
\* 'reward' (and reward_change) as Wins and 'score' (and score_change) as
\* Rewards.
C20_CrossWiredFields ==
    /\ op = "collect" =>
          \A k \in 1..Len(results) :
              ~PeerAbsent(PeerEvents[k].resp) =>
                  LET data == PeerEvents[k].resp.data
                  IN  /\ results[k].reward = DictGetDefault(data, "score", 0)
                      /\ results[k].score = DictGetDefault(data, "reward", 0)
    /\ DOMAIN report # {} =>
          /\ \A k \in 1..Len(results) :
                LET row == report.local.excel[k]
                    id == results[k].id
                IN  /\ row.Wins = results[k].reward
                    /\ row.Rewards = results[k].score
                    /\ id \in DOMAIN changes =>
                          /\ row.WinsChange = changes[id].reward_change
                          /\ row.RewardsChange = changes[id].score_change
          /\ \A id \in DOMAIN changes :
                /\ changes[id].reward_change =
                       LastRecord(results, id).reward
                           - LastRecord(previous_data[1], id).reward
                /\ changes[id].score_change =
                       LastRecord(results, id).score
                           - LastRecord(previous_data[1], id).score
          /\ report.local.console.total_reward
                 = TotalReward(results, Len(results))
    /\ (DOMAIN report # {} /\ DOMAIN report.telegram # {}) =>
          /\ report.telegram.main.total_reward
                 = TotalReward(results, Len(results))
          /\ \A k \in 1..Len(report.telegram.detailed) :
                /\ report.telegram.detailed[k].Wins = results[k].reward
                /\ report.telegram.detailed[k].Rewards = results[k].score
          /\ \A id \in DOMAIN report.telegram.main_changes :
                LET shown == report.telegram.main_changes[id]
                    delta == changes[id]
                IN  /\ shown.Wins # NoneInt =>
                           shown.Wins[1] = delta.reward_change
                    /\ shown.Rewards # NoneInt =>
                           shown.Rewards[1] = delta.score_change

\* C20's case: the peer service gave score 2 and reward 1 for a node whose
\* previous record had 1 and 1: the reports show Wins 2 (changed by 1) and
\* Rewards 1 (unchanged).
C20_Witness ==
    /\ phase = "done"
    /\ Len(results) = 1
    /\ PeerEvents[1].resp.kind = "dict"
    /\ DictGetDefault(PeerEvents[1].resp.data, "score", 0) = 2
    /\ DictGetDefault(PeerEvents[1].resp.data, "reward", 0) = 1
    /\ report.local.excel[1].Wins = 2
    /\ report.local.excel[1].WinsChange = 1
    /\ report.local.excel[1].Rewards = 1
    /\ report.local.excel[1].RewardsChange = 0
    /\ Len(report.telegram.detailed) = 1
    /\ report.telegram.detailed[1].Wins = 2
    /\ report.telegram.main_changes["n1"].Wins = Some(1)
    /\ report.telegram.main_changes["n1"].Rewards = NoneInt

\* ------------------------------------------- properties of cycle after cycle

\* The running cycle has read a roster with nodes, and so collects.
CycleCollects == phase \notin {"none", "read", "load"} /\ nodes_data # <<>>

\* The running cycle has computed its changes.
ChangesComputed == CycleCollects /\ phase # "collecting" /\ pc = "returned"

\* The two files are as the running cycle found them, and none of its
\* persistence calls was made.
FilesUntouched ==
    /\ current_file = files0.current
    /\ history = files0.history
    /\ torn = files0.torn
    /\ saved = [current |-> "none", history |-> "none"]

\* The running cycle has handed its main report to Telegram.
MainReportSent == \E k \in 1..Len(sent) : sent[k] = "main_report"

\* C24 as stated: a cycle that collects computes its changes against the
\* RecordSet of the last save_current_data that succeeded before it (none:
\* empty changes), having read it before collecting, and writes the two
\* files only after the main report was handed to Telegram.
C24_ChangesAgainstLastStored ==
    /\ CycleCollects => previous_data = files0.current
    /\ ChangesComputed =>
           changes = CalculateChanges(current_data, files0.current)
    /\ (phase # "none" /\ ~MainReportSent) => FilesUntouched

\* What load_previous_data gives for the files the running cycle found.
SnapshotFound ==
    IF "current" \in files0.torn THEN NoneInt ELSE files0.current

\* C24, amended: a cycle that collects has read the current slot before
\* collecting; it computes its changes against what the slot then held,
\* which is the RecordSet of the last save_current_data that succeeded
\* unless a later save_current_data failed while writing and left the slot
\* unparseable; the changes are empty when the slot was missing or
\* unparseable; and the two files are written only after the main report
\* was handed to Telegram.
C24_ChangesAgainstReadableSnapshot ==
    /\ CycleCollects => previous_data = SnapshotFound
    /\ ChangesComputed =>
           /\ current_data = results
           /\ changes = CalculateChanges(results, SnapshotFound)
           /\ SnapshotFound = NoneInt => changes = EmptyDict
    /\ (phase # "none" /\ ~MainReportSent) => FilesUntouched

\* C24's case: the second of two cycles that both saved; the first stored a
\* default record of n1, the second computed Wins +2 against it and then
\* overwrote the slot.
C24_Witness ==
    /\ phase = "done"
    /\ pc = "returned"
    /\ Len(appended) = 2
    /\ files0.torn = {}
    /\ files0.current = Some(appended[1].data)
    /\ previous_data = files0.current
    /\ "n1" \in DOMAIN changes
    /\ DictGetDefault(changes, "n1", [reward_change |-> 0]).reward_change = 2
    /\ saved = [current |-> "ok", history |-> "ok"]
    /\ current_file = Some(results)
    /\ current_file # files0.current

\* No cycle is running, or the running one has ended.
BetweenCycles == phase \in {"none", "done"}

\* The history can be read and has a newest entry, and the current slot
\* does not hold that entry's RecordSet: it is missing, unparseable, or
\* holds another RecordSet.
StoresDiffer ==
    /\ "history" \notin torn
    /\ history # <<>>
    /\ \/ "current" \in torn
       \/ current_file # Some(history[Len(history)].data)

BothSaved == persisted = [current |-> "ok", history |-> "ok"]

ExactlyOneFailed ==
    /\ persisted.current # "none"
    /\ persisted.history # "none"
    /\ (persisted.current = "ok") # (persisted.history = "ok")

\* C25 as stated: when both persistence calls of the last cycle that made
\* them succeeded, the current slot holds the RecordSet of the newest
\* history entry; and between cycles the stores differ only when exactly
\* one of the two calls of that cycle failed.
C25_StoresDifferOnlyAfterOneFailure ==
    /\ BothSaved =>
           /\ torn = {}
           /\ history # <<>>
           /\ current_file = Some(history[Len(history)].data)
    /\ (BetweenCycles /\ StoresDiffer) => ExactlyOneFailed

\* C25, amended: when both persistence calls of the last cycle that made
\* them succeeded, both files can be read and the current slot holds the
\* RecordSet of the newest history entry; between cycles the stores differ
\* only when at least one of the two calls of that cycle failed (both may
\* have: the slot cut short and the history left as it was, or stores that
\* differed before and were both left as they were).
C25_StoresAgreeAfterBothSaved ==
    /\ BothSaved =>
           /\ torn = {}
           /\ history # <<>>
           /\ current_file = Some(history[Len(history)].data)
    /\ (BetweenCycles /\ StoresDiffer) =>
           /\ persisted.current # "none"
           /\ ~BothSaved

\* C25's case: a cycle in which only save_to_history succeeded, followed by
\* one in which both succeeded and the stores agree again.
C25_Witness ==
    /\ phase = "done"
    /\ BothSaved
    /\ Len(appended) = 2
    /\ files0.current # Some(files0.history[Len(files0.history)].data)
    /\ current_file = Some(appended[2].data)
    /\ history[Len(history)] = appended[2]

\* The contract calls of the running resolver invocation.
ContractCalls == SelectSeq(rlog, LAMBDA e : e.ev = "call")

\* An exception has reached the handler of the cycle.
CycleRaised == phase = "raised" \/ (phase = "collecting" /\ pc = "raised")

\* C26: every cycle comes to its end (run_monitoring_cycle returns): the
\* resolver calls the contract at most 3 times, the loop over the nodes
\* makes at most one peer-info request per descriptor, the prober requests
\* at most 6 endpoints for an address, and an exception that reaches the
\* handler of the cycle is followed by the critical-error message and the
\* return of run_monitoring_cycle.
C26_CycleTerminates ==
    /\ [](/\ Len(ContractCalls) <= max_retries
          /\ Len(PeerEvents) <= Len(nodes_data)
          /\ Len(results) <= Len(nodes_data)
          /\ Len(tx_requests) <= NumEndpoints)
    /\ <>(phase = "done")
    /\ CycleRaised ~>
           (phase = "done" /\ sent[Len(sent)] = "critical_error")

\* C26's case: the resolver failed three times, the peer service answered
\* with a body that is no object, and the cycle ended through its handler.
C26_Witness ==
    /\ phase = "done"
    /\ eoa_status = "exhausted"
    /\ pc = "raised"
    /\ sent = <<"start", "critical_error">>

====
